---- MODULE Spec2Model ----
(***************************************************************************)
(* repo-tool: the download path (RepoManager.download_repository, the      *)
(* ProgressReporter, the DownloadScreen / MultiDownloadScreen workers and  *)
(* their hand-off to the UI thread) and the repository operations of       *)
(* RepositoryOperations with the error records they write to the logger;   *)
(* the keyring behind TokenManager and CredentialManager, the repository   *)
(* listings of RepoManager and RepositoryHandler, and the MessageCenter.   *)
(***************************************************************************)
EXTENDS Integers, Sequences, FiniteSets, TLC

\* ------------------------------------------------------------------ bounds
MaxReports == 2   \* transport progress reports per clone
MaxCount   == 4   \* largest object count the transport reports
NumOpCodes == 2   \* transport phases (op codes) of one clone
MaxOps     == 2   \* repository operations in one run
MaxCalls   == 3   \* calls of the stores, listings and message center in one run
MaxSec     == 1   \* latest second the clock shows

\* ---------------------------------------------------------------- universe
Screens   == {"single", "multi"}      \* DownloadScreen, MultiDownloadScreen
RepoNames == {"repoA", "repoB"}
NoTotal   == -1                       \* max_count=None

ParentDir == <<"home">>
Dest      == <<"home", "repos">>
RepoPath(name) == Append(Dest, name)                  \* destination / repo.name
Url(name) == <<"https", name>>                        \* repo.url
Paths     == {ParentDir, Dest} \cup {RepoPath(n) : n \in RepoNames}

Services    == {"github", "gitlab", "bitbucket", "other"}
OpKinds     == {"create", "fork", "delete", "issue", "search"}
CliOutcomes == {"ok", "CalledProcessError", "Exception"}

VARIABLES
    fs,          \* file system: path -> "absent" | "dir" | "file" | "partial" | "cloned"
    pc,          \* per screen: position of its worker thread
    repos,       \* per screen: the repositories it downloads, in order
    idx,         \* per screen: 1-based index of the loop of _download
    nReports,    \* per screen: transport reports made during the current clone
    report,      \* per screen: last transport report of the current clone
    cbCount,     \* per screen: progress callbacks made during the current job
    lastPct,     \* per screen: percentage last handed to the progress callback
    uiQueue,     \* callbacks handed to the UI thread by call_from_thread
    bar,         \* per screen: value of the #download-progress bar
    status,      \* per screen: content of the #download-status label
    spinner,     \* per screen: #spinner.display
    applied,     \* per screen: progress updates of the current job applied by the UI thread
    cloneCalls,  \* per screen: invocations of git.Repo.clone_from, per job
    cancelReq,   \* per screen: the "c" key was pressed while its job was running
    errorLog,    \* records written by logger.error
    lastOp,      \* the last repository operation and how it ended
    opsDone,     \* repository operations performed
    vault,       \* the keyring: (namespace, key) -> password, or None
    clients,     \* RepoManager.clients: per service, the token its client holds
    handler,     \* RepositoryHandler._github/_gitlab/_bitbucket: credentials held
    messages,    \* rows of the messages table, in rowid order
    lastCall,    \* the last call of the stores and listings, and how it ended
    calls,       \* calls of the stores and listings made
    config,      \* Config.config: its display section and a top-level entry
    defaults     \* DEFAULT_CONFIG, the module-level dictionary

dlVars  == <<fs, pc, repos, idx, nReports, report, cbCount, lastPct, uiQueue,
             bar, status, spinner, applied, cloneCalls, cancelReq>>
opVars  == <<lastOp, opsDone>>
cfVars  == <<config, defaults>>
stVars  == <<vault, clients, handler, messages, lastCall, calls, config, defaults>>
vars    == <<fs, pc, repos, idx, nReports, report, cbCount, lastPct, uiQueue,
             bar, status, spinner, applied, cloneCalls, cancelReq, errorLog,
             lastOp, opsDone, vault, clients, handler, messages, lastCall, calls,
             config, defaults>>

\* ------------------------------------------------------------- percentages
RECURSIVE Gcd(_, _)
Gcd(a, b) == IF b = 0 THEN a ELSE Gcd(b, a % b)

\* a percentage is the exact quotient n/d in lowest terms
Frac(n, d) == LET g == Gcd(n, d) IN [n |-> n \div g, d |-> d \div g]
Zero == [n |-> 0, d |-> 1]
Hundred == [n |-> 100, d |-> 1]
Leq(p, q) == p.n * q.d <= q.n * p.d

\* ------------------------------------------------------------- file system
Prefixes(path) == {SubSeq(path, 1, k) : k \in 1..Len(path)}

Exists_Never(f, path) == FALSE

\* Path.exists()
Exists(f, path) == f[path] # "absent"

\* Path.mkdir(parents=True, exist_ok=True) raises when a component is a file
MkdirRaises(f, path) == \E q \in Prefixes(path) : f[q] = "file"

\* mkdir without parents: the last component alone
MkdirParents_LeafOnly(f, path) ==
    [q \in Paths |-> IF q = path /\ f[q] = "absent" THEN "dir" ELSE f[q]]

\* Path.mkdir(parents=True, exist_ok=True): every missing component is created
MkdirParents(f, path) ==
    [q \in Paths |-> IF q \in Prefixes(path) /\ f[q] = "absent" THEN "dir" ELSE f[q]]

\* RepoManager.validate_destination(path) on the file system f, where parentW
\* says that the directory the probe has to write into, and os.access asks
\* about, grants write access: a path that exists is only asked about; a
\* missing one is created with mkdir(parents=True), which makes every missing
\* ancestor as well, and path.rmdir() then removes the last component alone.
\* Every exception gives False.
validate_destination(f, path, parentW) ==
    IF ~Exists(f, path)
    THEN IF MkdirRaises(f, path) \/ ~parentW
         THEN [fs |-> f, result |-> FALSE]
         ELSE [fs |-> [MkdirParents(f, path) EXCEPT ![path] = "absent"],
               result |-> parentW]
    ELSE [fs |-> f, result |-> parentW]

\* ------------------------------------------------------- ProgressReporter
Truthy(max) == max # NoTotal /\ max # 0                   \* `if max_count:`

Percent_IntDiv(cur, max) == Frac((cur \div max) * 100, 1)

Percent(cur, max) == Frac(cur * 100, max)        \* cur_count / float(max_count) * 100.0

\* ProgressReporter.update: the percentages handed to the callback (none or one)
ProgressReporter_update(hasCb, cur, max) ==
    IF Truthy(max)
    THEN IF hasCb THEN <<Percent(cur, max)>> ELSE <<>>
    ELSE <<>>

\* the transport's reports: within one op code the total is fixed and the count
\* does not go down; a later op code starts its own count
Reports ==
    {r \in [op : 1..NumOpCodes, cur : 0..MaxCount, max : {NoTotal} \cup 0..MaxCount] :
        r.max > 0 => r.cur <= r.max}
NoReport == [op |-> 0, cur |-> 0, max |-> NoTotal]
Follows(prev, r) ==
    \/ r.op > prev.op
    \/ r.op = prev.op /\ r.max = prev.max /\ r.cur >= prev.cur

\* ------------------------------------------------------------ UI hand-off
\* App.call_from_thread(cb): cb is queued for the UI thread ...
CallFromThread(q, cb) == Append(q, cb)
Returned_NoWait(q, s) == TRUE

\* ... and the calling thread waits until the UI thread has run it
Returned(q, s) == \A k \in 1..Len(q) : q[k].screen # s

NoStatus == [kind |-> "empty", idx |-> 0, total |-> 0, name |-> "", pct |-> Zero]

\* ------------------------------------------------------------------- jobs
Name(s)  == repos[s][idx[s]]
Total(s) == Len(repos[s])

\* the batches a screen can be given: DownloadScreen one repository,
\* MultiDownloadScreen the selected repositories (distinct names) in any order
Batches(s) ==
    IF s = "single"
    THEN {<<n>> : n \in RepoNames}
    ELSE {<<n>> : n \in RepoNames} \cup
         {<<p[1], p[2]>> : p \in {q \in RepoNames \X RepoNames : q[1] # q[2]}}

NextIndex_Stuck(i) == i

\* for index, repo in enumerate(self.repos, start=1)
NextIndex(i) == i + 1

\* state of job i of screen s, read off the worker's position
JobState(s, i) ==
    IF pc[s] = "unmounted" \/ i > idx[s] THEN "Pending"
    ELSE IF i < idx[s] THEN "Completed"
    ELSE IF pc[s] = "clone" THEN "Running"
    ELSE IF pc[s] = "dead" THEN "Failed"
    ELSE "Pending"

\* logger.error(f"Failed to download repository {repo.name}: {e}")
DownloadError(s, cause) ==
    [op |-> "download", who |-> s, name |-> Name(s), cause |-> cause]

\* ------------------------------------------------------------- the keyring
None      == "None"                             \* Python's None
Providers == {"github", "gitlab", "bitbucket"}
Secrets   == {"", "t1", "t2"}
TokenKeys == Providers                          \* TokenManager: one entry per service
CredKeys  == {"github_token", "gitlab_token", "bitbucket_username",
              "bitbucket_token"}
KEYRING_NAMESPACE == "repo_tool"                \* TokenManager
namespace == "repo_manager"                     \* CredentialManager()
\* the entries SettingsScreen.save_settings writes through TokenManager
SettingsKeys == {"github", "gitlab", "bitbucket_user", "bitbucket_token"}
VaultKeys == ({KEYRING_NAMESPACE} \X (TokenKeys \cup SettingsKeys)) \cup
             ({namespace} \X CredKeys)
EmptyVault == [k \in VaultKeys |-> None]

\* bool(x), `if x:` for an optional string
Bool(x) == x # None /\ x # ""

\* keyring.get_password / set_password
get_password(v, ns, key) == v[<<ns, key>>]

set_password_KeepFirst(v, ns, key, value) ==
    IF v[<<ns, key>>] # None THEN v ELSE [v EXCEPT ![<<ns, key>>] = value]

set_password(v, ns, key, value) == [v EXCEPT ![<<ns, key>>] = value]

\* keyring.delete_password: for an entry that does not exist a backend raises
\* PasswordDeleteError (strict) or does nothing
delete_password(v, ns, key, strict) ==
    IF v[<<ns, key>>] = None
    THEN [vault |-> v, raised |-> strict]
    ELSE [vault |-> [v EXCEPT ![<<ns, key>>] = None], raised |-> FALSE]

\* TokenManager.get_token
get_token(v, service) == get_password(v, KEYRING_NAMESPACE, service)

\* CredentialManager.get_credential
get_credential(v, key) == get_password(v, namespace, key)

\* has_credentials looking at the token only for every platform
has_credentials_TokenOnly(v, platform) ==
    IF platform = "github" THEN Bool(get_credential(v, "github_token"))
    ELSE IF platform = "gitlab" THEN Bool(get_credential(v, "gitlab_token"))
    ELSE IF platform = "bitbucket" THEN Bool(get_credential(v, "bitbucket_token"))
    ELSE FALSE

\* CredentialManager.has_credentials; `a and b` is a when a is falsy
has_credentials(v, platform) ==
    IF platform = "github" THEN Bool(get_credential(v, "github_token"))
    ELSE IF platform = "gitlab" THEN Bool(get_credential(v, "gitlab_token"))
    ELSE IF platform = "bitbucket"
         THEN Bool(IF Bool(get_credential(v, "bitbucket_username"))
                   THEN get_credential(v, "bitbucket_token")
                   ELSE get_credential(v, "bitbucket_username"))
    ELSE FALSE

\* --------------------------------------------------------- provider clients
\* a client is known by the credentials it was constructed with
Client(token, username) == [token |-> token, username |-> username]
NoClient == Client(None, None)

\* RepoManager._setup_clients: one client per service whose token is truthy
SetupClients(v) ==
    [p \in Providers |->
        IF Bool(get_token(v, p)) THEN Client(get_token(v, p), None) ELSE NoClient]

\* RepositoryHandler.init_github / init_gitlab / init_bitbucket
init_client(v, p) ==
    IF ~has_credentials(v, p) THEN NoClient
    ELSE IF p = "bitbucket"
         THEN Client(get_credential(v, "bitbucket_token"),
                     get_credential(v, "bitbucket_username"))
         ELSE IF p = "github" THEN Client(get_credential(v, "github_token"), None)
         ELSE Client(get_credential(v, "gitlab_token"), None)

\* the order in which both listings visit the services
ProviderOrder == <<"github", "gitlab", "bitbucket">>
Pos(p) == CHOOSE i \in 1..Len(ProviderOrder) : ProviderOrder[i] = p

\* the repositories one service returned, with the credentials that fetched them
Listing(p, client) == [service |-> p, cred |-> client]

\* logger.error(f"Failed to fetch repositories from {service}: {e}")
ListError(service) ==
    [op |-> "list", who |-> service, name |-> "", cause |-> "Exception"]

NoCall == [op |-> "none", key |-> "", value |-> None, result |-> None,
           raised |-> FALSE, listed |-> <<>>, failed |-> {},
           args |-> <<>>, rows |-> <<>>, out |-> <<>>, count |-> 0,
           flag |-> FALSE]

\* ----------------------------------------------------------- MessageCenter
MessageTypes == {"info", "progress"}            \* MessageType.INFO, .PROGRESS
Texts        == {"a"}
Sources      == {"", "s1"}
Details      == {None, "{}", "{k: v}"}          \* no dict, the empty dict, a dict
Progresses   == {None, "50.0"}
NoLimit      == -1                              \* limit=None

\* datetime: (second, microsecond); NoTime is None where a datetime is optional
Times  == (0..MaxSec) \X (0..1)
NoTime == <<>>

\* datetime.isoformat(): the fraction is left out when the microsecond is 0
isoformat(dt) == IF dt[2] = 0 THEN <<dt[1]>> ELSE dt

\* datetime.fromisoformat()
fromisoformat(s) == IF Len(s) = 1 THEN <<s[1], 0>> ELSE s

\* comparison of two TEXT timestamps by SQLite: character by character, a
\* proper prefix sorting first
TextLess(a, b) ==
    IF a[1] # b[1] THEN a[1] < b[1]
    ELSE IF Len(a) = 1 THEN Len(b) = 2
    ELSE Len(b) = 2 /\ a[2] < b[2]

\* json.dumps / json.loads of a details dict
json_dumps(d) == IF d = "{}" THEN "'{}'" ELSE "'{\"k\": \"v\"}'"
json_loads(s) == IF s = "'{}'" THEN "{}" ELSE "{k: v}"

\* `if details` of an optional dict: None and the empty dict are falsy
DictTruthy(d) == d # None /\ d # "{}"

\* the Message add_message builds
Message(type, text, timestamp, source, details, progress) ==
    [type |-> type, text |-> text, timestamp |-> timestamp, source |-> source,
     details |-> details, progress |-> progress]

\* the row add_message inserts for a Message
Row(m) ==
    [type |-> m.type, text |-> m.text, timestamp |-> isoformat(m.timestamp),
     source |-> m.source,
     details |-> IF DictTruthy(m.details) THEN json_dumps(m.details) ELSE None,
     progress |-> m.progress]

\* the Message get_messages builds from a row
FromRow(r) ==
    [type |-> r.type, text |-> r.text, timestamp |-> fromisoformat(r.timestamp),
     source |-> r.source,
     details |-> IF Bool(r.details) THEN json_loads(r.details) ELSE None,
     progress |-> r.progress]

\* what add_message is called with
Contents ==
    {c \in [type : MessageTypes, text : Texts, details : Details,
            progress : Progresses] :
        /\ c.type = "progress" <=> c.progress # None
        /\ c.type = "progress" => c.details = None}

\* the WHERE clause of get_messages: `if type:`, `if source:`, `if since:`
Selected(r, type, source, since) ==
    /\ Bool(type) => r.type = type
    /\ Bool(source) => r.source = source
    /\ since # NoTime => TextLess(isoformat(since), r.timestamp)

\* the WHERE clause of clear_messages
Cleared(r, older_than, type, source) ==
    /\ older_than # NoTime => TextLess(r.timestamp, isoformat(older_than))
    /\ Bool(type) => r.type = type
    /\ Bool(source) => r.source = source

\* the rows `ids` in any order at all
Newest_Any(tbl, ids) ==
    {o \in [1..Cardinality(ids) -> ids] :
        \A i, j \in 1..Cardinality(ids) : i # j => o[i] # o[j]}

\* ORDER BY timestamp DESC over the rows `ids` of table `tbl`: every order of
\* the rows in which no row precedes one with a greater timestamp
Newest(tbl, ids) ==
    {o \in [1..Cardinality(ids) -> ids] :
        /\ \A i, j \in 1..Cardinality(ids) : i # j => o[i] # o[j]
        /\ \A i, j \in 1..Cardinality(ids) :
              i < j => ~TextLess(tbl[o[i]].timestamp, tbl[o[j]].timestamp)}

\* LIMIT ?: `if limit:` adds no clause for None and for 0
Limit(o, limit) ==
    IF limit # NoLimit /\ limit # 0 /\ limit < Len(o) THEN SubSeq(o, 1, limit) ELSE o

\* ------------------------------------------------------------------ Config
Themes == {"dark", "light", "system"}

\* DEFAULT_CONFIG: the theme of its "display" dictionary; a top-level entry
\* "k" it does not have
DEFAULT_CONFIG == [theme |-> "dark"]

\* the dictionary of a Config: whether its "display" entry is the very
\* dictionary DEFAULT_CONFIG["display"] (shared) or one of its own with the
\* theme `theme`; `extra` is the value under the top-level key "k"
ConfigDict(shared, theme, extra) == [shared |-> shared, theme |-> theme, extra |-> extra]

\* DEFAULT_CONFIG.copy(): a new top-level dictionary whose values are the
\* objects of DEFAULT_CONFIG
ShallowCopy == ConfigDict(TRUE, None, None)

\* {**DEFAULT_CONFIG, **config}: the display section read from the file is a
\* dictionary of its own
Loaded(theme) == ConfigDict(FALSE, theme, None)

\* the keys and values given to get and set: the theme, and a top-level key
ConfigKeys == {"theme", "language"}
Values == Themes

\* Config.get over the configuration c and the module's DEFAULT_CONFIG d: the
\* key of the top level if it is there, the theme of the display section
get(c, d, key) ==
    IF key = "theme" THEN (IF c.shared THEN d.theme ELSE c.theme)
    ELSE c.extra

TypeOK ==
    /\ fs \in [Paths -> {"absent", "dir", "file", "partial", "cloned"}]
    /\ pc \in [Screens -> {"unmounted", "loop", "mkdir", "check", "call_clone",
                           "clone", "finish", "done", "dead"}]
    /\ \A s \in Screens : idx[s] \in 1..3 /\ nReports[s] \in 0..MaxReports
    /\ spinner \in [Screens -> BOOLEAN]
    /\ cancelReq \in [Screens -> BOOLEAN]
    /\ opsDone \in 0..MaxOps
    /\ vault \in [VaultKeys -> Secrets \cup {None}]
    /\ calls \in 0..MaxCalls

\* ------------------------------------------------------------------- Init
InitFs ==
    {f \in [Paths -> {"absent", "dir", "file"}] :
        /\ f[ParentDir] # "file"
        /\ f[Dest] # "absent" => f[ParentDir] = "dir"
        /\ \A n \in RepoNames :
              /\ f[RepoPath(n)] # "file"
              /\ f[RepoPath(n)] # "absent" => f[Dest] = "dir"}

NoOp == [op |-> "none", service |-> "none", result |-> "none", errors |-> 0]

\* the download screens before anything is mounted, no operation performed
InitJobs ==
    /\ pc = [s \in Screens |-> "unmounted"]
    /\ repos = [s \in Screens |-> <<>>]
    /\ idx = [s \in Screens |-> 1]
    /\ nReports = [s \in Screens |-> 0]
    /\ report = [s \in Screens |-> NoReport]
    /\ cbCount = [s \in Screens |-> 0]
    /\ lastPct = [s \in Screens |-> Zero]
    /\ uiQueue = <<>>
    /\ bar = [s \in Screens |-> Zero]
    /\ status = [s \in Screens |-> NoStatus]
    /\ spinner = [s \in Screens |-> FALSE]
    /\ applied = [s \in Screens |-> 0]
    /\ cloneCalls = [s \in Screens |-> <<>>]
    /\ cancelReq = [s \in Screens |-> FALSE]
    /\ errorLog = <<>>
    /\ lastOp = NoOp
    /\ opsDone = 0

\* RepoManager() and RepositoryHandler(cred_manager) constructed over the
\* keyring v; the messages table created empty
InitObjects(v) ==
    /\ vault = v
    /\ clients = SetupClients(v)
    /\ handler = [p \in Providers |-> NoClient]
    /\ messages = <<>>
    /\ lastCall = NoCall
    /\ calls = 0

\* ... and Config() where no configuration file exists yet
InitStores(v) ==
    /\ InitObjects(v)
    /\ config = ShallowCopy
    /\ defaults = DEFAULT_CONFIG

Init ==
    /\ fs \in InitFs
    /\ InitJobs
    /\ InitStores(EmptyVault)

\* ----------------------------------------------------- download: workers
\* on_mount: the spinner is shown and the worker thread is started
OnMount(s, batch) ==
    /\ pc[s] = "unmounted"
    /\ batch \in Batches(s)
    /\ repos' = [repos EXCEPT ![s] = batch]
    /\ cloneCalls' = [cloneCalls EXCEPT ![s] = [i \in 1..Len(batch) |-> 0]]
    /\ spinner' = [spinner EXCEPT ![s] = TRUE]
    /\ pc' = [pc EXCEPT ![s] = "loop"]
    /\ UNCHANGED <<fs, idx, nReports, report, cbCount, lastPct, uiQueue, bar,
                   status, applied, cancelReq, errorLog, lastOp, opsDone, stVars>>

\* action_download pushes one download screen, which nothing pops again
Mount(s, batch) ==
    /\ \A o \in Screens : pc[o] = "unmounted"
    /\ OnMount(s, batch)

\* _download: the next repository of the list, or _finish handed to the UI
\* thread once the list is exhausted
LoopHead(s) ==
    /\ pc[s] = "loop"
    /\ IF idx[s] <= Total(s)
       THEN /\ pc' = [pc EXCEPT ![s] = "mkdir"]
            /\ UNCHANGED uiQueue
       ELSE /\ uiQueue' = CallFromThread(uiQueue,
                 [screen |-> s, kind |-> "finish", idx |-> 0, total |-> 0,
                  name |-> "", pct |-> Zero])
            /\ pc' = [pc EXCEPT ![s] = "finish"]
    /\ UNCHANGED <<fs, repos, idx, nReports, report, cbCount, lastPct, bar, status,
                   spinner, applied, cloneCalls, cancelReq, errorLog, lastOp, opsDone, stVars>>

Raise_NoLog(s, cause) ==
    /\ errorLog' = errorLog
    /\ pc' = [pc EXCEPT ![s] = "dead"]

\* download_repository raised: the error is logged, the exception is raised
\* again and, nothing catching it in _download, ends the worker thread
Raise(s, cause) ==
    /\ errorLog' = Append(errorLog, DownloadError(s, cause))
    /\ pc' = [pc EXCEPT ![s] = "dead"]

\* destination.mkdir(parents=True, exist_ok=True)
Mkdir(s) ==
    /\ pc[s] = "mkdir"
    /\ IF MkdirRaises(fs, Dest)
       THEN /\ Raise(s, "FileExistsError")
            /\ UNCHANGED fs
       ELSE /\ fs' = MkdirParents(fs, Dest)
            /\ pc' = [pc EXCEPT ![s] = "check"]
            /\ UNCHANGED errorLog
    /\ UNCHANGED <<repos, idx, nReports, report, cbCount, lastPct, uiQueue, bar,
                   status, spinner, applied, cloneCalls, cancelReq, lastOp, opsDone, stVars>>

\* if repo_path.exists(): raise ValueError; else a ProgressReporter is made
Check(s) ==
    /\ pc[s] = "check"
    /\ IF Exists(fs, RepoPath(Name(s)))
       THEN /\ Raise(s, "ValueError")
            /\ UNCHANGED <<nReports, report, cbCount, lastPct, applied>>
       ELSE /\ pc' = [pc EXCEPT ![s] = "call_clone"]
            /\ nReports' = [nReports EXCEPT ![s] = 0]
            /\ report' = [report EXCEPT ![s] = NoReport]
            /\ cbCount' = [cbCount EXCEPT ![s] = 0]
            /\ lastPct' = [lastPct EXCEPT ![s] = Zero]
            /\ applied' = [applied EXCEPT ![s] = 0]
            /\ UNCHANGED errorLog
    /\ UNCHANGED <<fs, repos, idx, uiQueue, bar, status, spinner,
                   cloneCalls, cancelReq, lastOp, opsDone, stVars>>

\* git.Repo.clone_from is entered: git makes the target directory, or refuses
\* a target that has appeared since the check
CloneStart(s, refuse) ==
    /\ pc[s] = "call_clone"
    /\ cloneCalls' = [cloneCalls EXCEPT ![s][idx[s]] = @ + 1]
    /\ lastCall' = [NoCall EXCEPT !.op = "clone_from",
                       !.args = [url |-> Url(Name(s)),
                                 to_path |-> RepoPath(Name(s))]]
    /\ IF Exists(fs, RepoPath(Name(s))) /\ refuse
       THEN /\ Raise(s, "GitCommandError")
            /\ UNCHANGED fs
       ELSE /\ fs' = [fs EXCEPT ![RepoPath(Name(s))] = "partial"]
            /\ pc' = [pc EXCEPT ![s] = "clone"]
            /\ UNCHANGED errorLog
    /\ UNCHANGED <<repos, idx, nReports, report, cbCount, lastPct, uiQueue, bar,
                   status, spinner, applied, cancelReq, lastOp, opsDone, cfVars,
                   vault, clients, handler, messages, calls>>

ProgressCallback_Reversed(s, pct) ==
    [screen |-> s, kind |-> "progress",
     idx |-> IF s = "multi" THEN Total(s) - idx[s] + 1 ELSE 0,
     total |-> IF s = "multi" THEN Total(s) ELSE 0,
     name |-> IF s = "multi" THEN Name(s) ELSE "",
     pct |-> pct]

\* the progress callback of the screen: update_progress hands _update to the UI
ProgressCallback(s, pct) ==
    [screen |-> s, kind |-> "progress",
     idx |-> IF s = "multi" THEN idx[s] ELSE 0,
     total |-> IF s = "multi" THEN Total(s) ELSE 0,
     name |-> IF s = "multi" THEN Name(s) ELSE "",
     pct |-> pct]

\* the transport reports progress: ProgressReporter.update
CloneReport(s, r) ==
    /\ pc[s] = "clone"
    /\ Returned(uiQueue, s)
    /\ nReports[s] < MaxReports
    /\ r \in Reports
    /\ Follows(report[s], r)
    /\ nReports' = [nReports EXCEPT ![s] = @ + 1]
    /\ report' = [report EXCEPT ![s] = r]
    /\ LET out == ProgressReporter_update(TRUE, r.cur, r.max) IN
       IF out = <<>>
       THEN UNCHANGED <<cbCount, lastPct, uiQueue>>
       ELSE /\ cbCount' = [cbCount EXCEPT ![s] = @ + 1]
            /\ lastPct' = [lastPct EXCEPT ![s] = out[1]]
            /\ uiQueue' = CallFromThread(uiQueue, ProgressCallback(s, out[1]))
    /\ UNCHANGED <<fs, pc, repos, idx, bar, status, spinner, applied, cloneCalls,
                   cancelReq, errorLog, lastOp, opsDone, stVars>>

\* clone_from returns: download_repository returns to the loop of _download
CloneOk(s) ==
    /\ pc[s] = "clone"
    /\ Returned(uiQueue, s)
    /\ fs' = [fs EXCEPT ![RepoPath(Name(s))] = "cloned"]
    /\ idx' = [idx EXCEPT ![s] = NextIndex(@)]
    /\ pc' = [pc EXCEPT ![s] = "loop"]
    /\ UNCHANGED <<repos, nReports, report, cbCount, lastPct, uiQueue, bar, status,
                   spinner, applied, cloneCalls, cancelReq, errorLog, lastOp, opsDone, stVars>>

\* clone_from raises; git leaves the partial directory or removes it
CloneFail(s, left) ==
    /\ pc[s] = "clone"
    /\ Returned(uiQueue, s)
    /\ left \in {"partial", "absent"}
    /\ fs' = [fs EXCEPT ![RepoPath(Name(s))] = left]
    /\ Raise(s, "GitCommandError")
    /\ UNCHANGED <<repos, idx, nReports, report, cbCount, lastPct, uiQueue, bar,
                   status, spinner, applied, cloneCalls, cancelReq, lastOp, opsDone, stVars>>

\* --------------------------------------------------- download: UI thread
\* _update: bar.update(progress=percent); the status label shows the progress
UIProgress ==
    /\ uiQueue # <<>>
    /\ Head(uiQueue).kind = "progress"
    /\ LET cb == Head(uiQueue) IN
       /\ bar' = [bar EXCEPT ![cb.screen] = cb.pct]
       /\ status' = [status EXCEPT ![cb.screen] =
                        [kind |-> "progress", idx |-> cb.idx, total |-> cb.total,
                         name |-> cb.name, pct |-> cb.pct]]
       /\ applied' = [applied EXCEPT ![cb.screen] = @ + 1]
    /\ uiQueue' = Tail(uiQueue)
    /\ UNCHANGED <<fs, pc, repos, idx, nReports, report, cbCount, lastPct, spinner,
                   cloneCalls, cancelReq, errorLog, lastOp, opsDone, stVars>>

\* _finish: the spinner is hidden, the label reads "complete"; call_from_thread
\* returns and the worker thread ends
UIFinish ==
    /\ uiQueue # <<>>
    /\ Head(uiQueue).kind = "finish"
    /\ LET cb == Head(uiQueue) IN
       /\ spinner' = [spinner EXCEPT ![cb.screen] = FALSE]
       /\ status' = [status EXCEPT ![cb.screen] = [NoStatus EXCEPT !.kind = "complete"]]
       /\ pc' = [pc EXCEPT ![cb.screen] = "done"]
    /\ uiQueue' = Tail(uiQueue)
    /\ UNCHANGED <<fs, repos, idx, nReports, report, cbCount, lastPct, bar, applied,
                   cloneCalls, cancelReq, errorLog, lastOp, opsDone, stVars>>

\* the "c" key: bound to the action "cancel", for which no handler exists
Cancel(s) ==
    /\ pc[s] = "clone"
    /\ ~cancelReq[s]
    /\ cancelReq' = [cancelReq EXCEPT ![s] = TRUE]
    /\ UNCHANGED <<fs, pc, repos, idx, nReports, report, cbCount, lastPct, uiQueue,
                   bar, status, spinner, applied, cloneCalls, errorLog, lastOp, opsDone, stVars>>

Next ==
    \/ \E s \in Screens : \E batch \in Batches(s) : Mount(s, batch)
    \/ \E s \in Screens : LoopHead(s)
    \/ \E s \in Screens : Mkdir(s)
    \/ \E s \in Screens : Check(s)
    \/ \E s \in Screens : \E refuse \in BOOLEAN : CloneStart(s, refuse)
    \/ \E s \in Screens : \E r \in Reports : CloneReport(s, r)
    \/ \E s \in Screens : CloneOk(s)
    \/ \E s \in Screens : \E left \in {"partial", "absent"} : CloneFail(s, left)
    \/ UIProgress
    \/ UIFinish
    \/ \E s \in Screens : Cancel(s)

Spec == Init /\ [][Next]_vars

\* a started worker thread keeps running: every statement of _download and of
\* download_repository is eventually executed, and clone_from returns or raises
WorkerStep(s) ==
    \/ LoopHead(s)
    \/ Mkdir(s)
    \/ Check(s)
    \/ \E refuse \in BOOLEAN : CloneStart(s, refuse)
    \/ CloneOk(s)
    \/ \E left \in {"partial", "absent"} : CloneFail(s, left)

\* ... and the UI thread runs every callable handed over by call_from_thread
Fairness ==
    /\ \A s \in Screens : WF_vars(WorkerStep(s))
    /\ WF_vars(UIProgress \/ UIFinish)

SpecLive == Spec /\ Fairness

\* two worker threads at once: each screen is mounted for one repository while
\* the worker of the other may be running, and the workers' statements
\* interleave
NextRace ==
    \/ \E s \in Screens : \E n \in RepoNames : OnMount(s, <<n>>)
    \/ \E s \in Screens : WorkerStep(s)
    \/ UIFinish

SpecRace == Init /\ [][NextRace]_vars

\* --------------------------------------------------- repository operations
\* the provider-specific GitHub handler (gh CLI): what it returns or raises and
\* how many records it writes with logger.error
GithubHandler(kind, cli) ==
    IF cli = "ok"
    THEN [result |-> IF kind = "delete" THEN "true" ELSE "ok", errors |-> 0]
    ELSE IF kind = "delete"
         THEN [result |-> "false", errors |-> 1]       \* logs, returns False
         ELSE [result |-> "raised", errors |-> 1]      \* logs, raises again

\* create_repository / fork_repository / delete_repository / create_issue /
\* search_repositories: dispatch on the service inside try/except that logs
\* and raises again. The GitLab and Bitbucket handlers do not exist
\* (AttributeError); any other service is a ValueError.
Dispatch(kind, service, cli) ==
    IF service = "github"
    THEN LET h == GithubHandler(kind, cli) IN
         IF h.result = "raised"
         THEN [result |-> "raised", errors |-> h.errors + 1]
         ELSE h
    ELSE [result |-> "raised", errors |-> 1]

OpError(kind, service) ==
    [op |-> kind, who |-> service, name |-> "", cause |-> "Exception"]

RECURSIVE Repeat(_, _)
Repeat(x, n) == IF n = 0 THEN <<>> ELSE <<x>> \o Repeat(x, n - 1)

RepoOp(kind, service, cli) ==
    /\ opsDone < MaxOps
    /\ service = "github" \/ cli = "ok"    \* the gh CLI runs for GitHub only
    /\ LET d == Dispatch(kind, service, cli) IN
       /\ lastOp' = [op |-> kind, service |-> service, result |-> d.result,
                     errors |-> d.errors]
       /\ errorLog' = errorLog \o Repeat(OpError(kind, service), d.errors)
    /\ opsDone' = opsDone + 1
    /\ UNCHANGED <<dlVars, stVars>>

CreateRepository(service, cli)   == RepoOp("create", service, cli)
ForkRepository(service, cli)     == RepoOp("fork", service, cli)
DeleteRepository(service, cli)   == RepoOp("delete", service, cli)
CreateIssue(service, cli)        == RepoOp("issue", service, cli)
SearchRepositories(service, cli) == RepoOp("search", service, cli)

NextOps ==
    \/ \E sv \in Services : \E cli \in CliOutcomes : CreateRepository(sv, cli)
    \/ \E sv \in Services : \E cli \in CliOutcomes : ForkRepository(sv, cli)
    \/ \E sv \in Services : \E cli \in CliOutcomes : DeleteRepository(sv, cli)
    \/ \E sv \in Services : \E cli \in CliOutcomes : CreateIssue(sv, cli)
    \/ \E sv \in Services : \E cli \in CliOutcomes : SearchRepositories(sv, cli)

SpecOps == Init /\ [][NextOps]_vars

\* ------------------------------------------- TokenManager and RepoManager
\* TokenManager.store_token
StoreToken(service, token) ==
    /\ calls < MaxCalls
    /\ vault' = set_password(vault, KEYRING_NAMESPACE, service, token)
    /\ lastCall' = [NoCall EXCEPT !.op = "store_token", !.key = service,
                                  !.value = token]
    /\ calls' = calls + 1
    /\ UNCHANGED <<dlVars, cfVars, errorLog, opVars, clients, handler, messages>>

\* TokenManager.get_token
GetToken(service) ==
    /\ calls < MaxCalls
    /\ lastCall' = [NoCall EXCEPT !.op = "get_token", !.key = service,
                                  !.result = get_token(vault, service)]
    /\ calls' = calls + 1
    /\ UNCHANGED <<dlVars, cfVars, errorLog, opVars, vault, clients, handler, messages>>

\* TokenManager.remove_token: keyring.delete_password, nothing caught
RemoveToken(service, strict) ==
    /\ calls < MaxCalls
    /\ LET d == delete_password(vault, KEYRING_NAMESPACE, service, strict) IN
       /\ vault' = d.vault
       /\ lastCall' = [NoCall EXCEPT !.op = "remove_token", !.key = service,
                                     !.raised = d.raised]
    /\ calls' = calls + 1
    /\ UNCHANGED <<dlVars, cfVars, errorLog, opVars, clients, handler, messages>>

\* RepoManager.get_all_repositories: every service of self.clients in turn,
\* inside try/except; the services in `failing` raise while listing
GetAllRepositories(failing) ==
    /\ calls < MaxCalls
    /\ LET has(p)  == clients[p] # NoClient
           ok(p)   == has(p) /\ p \notin failing
           bad(p)  == has(p) /\ p \in failing
           entry(i) == Listing(ProviderOrder[i], clients[ProviderOrder[i]])
           all     == [i \in 1..Len(ProviderOrder) |-> entry(i)]
       IN
       /\ lastCall' = [NoCall EXCEPT
                          !.op = "get_all_repositories",
                          !.failed = {p \in Providers : bad(p)},
                          !.listed = SelectSeq(all, LAMBDA e : ok(e.service))]
       /\ errorLog' = errorLog \o
                      [i \in 1..Len(SelectSeq(ProviderOrder, bad)) |->
                          ListError(SelectSeq(ProviderOrder, bad)[i])]
    /\ calls' = calls + 1
    /\ UNCHANGED <<dlVars, cfVars, opVars, vault, clients, handler, messages>>

NextManager ==
    \/ \E p \in TokenKeys : \E tok \in Secrets : StoreToken(p, tok)
    \/ \E p \in TokenKeys : GetToken(p)
    \/ \E p \in TokenKeys : \E strict \in BOOLEAN : RemoveToken(p, strict)
    \/ \E failing \in SUBSET Providers : GetAllRepositories(failing)

\* the keyring as an earlier run left it
TokenVaults ==
    {v \in [VaultKeys -> {None, "t1"}] :
        \A k \in VaultKeys :
            (k[1] # KEYRING_NAMESPACE \/ k[2] \notin TokenKeys) => v[k] = None}

InitManager ==
    /\ fs = [p \in Paths |-> "absent"]
    /\ InitJobs
    /\ \E v \in TokenVaults : InitStores(v)

SpecManager == InitManager /\ [][NextManager]_vars

\* ------------------------------------------- TokenManager, SettingsScreen
\* TokenManager.services, in the order of the list
services == <<"github", "gitlab", "bitbucket">>

\* the loop of clear_tokens from the i-th service on: delete_password for each
\* service in turn, nothing caught, so the first one that raises ends the loop
RECURSIVE clear_from(_, _, _)
clear_from(v, i, strict) ==
    IF i > Len(services) THEN [vault |-> v, raised |-> FALSE]
    ELSE LET d == delete_password(v, KEYRING_NAMESPACE, services[i], strict) IN
         IF d.raised THEN [vault |-> d.vault, raised |-> TRUE]
         ELSE clear_from(d.vault, i + 1, strict)

\* TokenManager.clear_tokens
ClearTokens(strict) ==
    /\ calls < MaxCalls
    /\ LET d == clear_from(vault, 1, strict) IN
       /\ vault' = d.vault
       /\ lastCall' = [NoCall EXCEPT !.op = "clear_tokens", !.raised = d.raised]
    /\ calls' = calls + 1
    /\ UNCHANGED <<dlVars, cfVars, errorLog, opVars, clients, handler, messages>>

\* store_token(key, value) when the input field is not empty
StoreField(v, key, value) ==
    IF value # "" THEN set_password(v, KEYRING_NAMESPACE, key, value) ELSE v

\* SettingsScreen.save_settings: every section of the configuration is replaced
\* by a new dictionary built from the widgets, the credentials typed in are
\* stored, the configuration is saved
SaveSettings(theme, gt, glt, bu, btok) ==
    /\ calls < MaxCalls
    /\ config' = ConfigDict(FALSE, theme, config.extra)
    /\ vault' = StoreField(StoreField(StoreField(StoreField(vault,
                    "github", gt), "gitlab", glt), "bitbucket_user", bu),
                    "bitbucket_token", btok)
    /\ lastCall' = [NoCall EXCEPT !.op = "save_settings"]
    /\ calls' = calls + 1
    /\ UNCHANGED <<dlVars, defaults, errorLog, opVars, clients, handler, messages>>

Fields == {"", "t1"}

NextSettings ==
    \/ \E theme \in Themes : \E gt, glt, bu, btok \in Fields :
          SaveSettings(theme, gt, glt, bu, btok)
    \/ \E strict \in BOOLEAN : ClearTokens(strict)
    \/ \E k \in TokenKeys \cup SettingsKeys : GetToken(k)

SpecSettings == InitManager /\ [][NextSettings]_vars

\* ------------------------------------------- RepoManager.validate_destination
\* validate_destination(path); pathW and parentW are the write permissions of
\* the path itself and of the directory above it
ValidateDestination(path, pathW, parentW) ==
    /\ calls < MaxCalls
    /\ LET d == validate_destination(fs, path, parentW) IN
       /\ fs' = d.fs
       /\ lastCall' = [NoCall EXCEPT !.op = "validate_destination",
                          !.args = [path |-> path, pathW |-> pathW,
                                    parentW |-> parentW],
                          !.flag = d.result]
    /\ calls' = calls + 1
    /\ UNCHANGED <<pc, repos, idx, nReports, report, cbCount, lastPct, uiQueue,
                   bar, status, spinner, applied, cloneCalls, cancelReq,
                   errorLog, opVars, cfVars, vault, clients, handler, messages>>

NextFiles ==
    \E path \in Paths : \E pathW, parentW \in BOOLEAN :
        ValidateDestination(path, pathW, parentW)

SpecFiles == Init /\ [][NextFiles]_vars

\* --------------------------------------------------- Config (operations)
\* Config.set: the theme goes into the display section, be it the section of
\* DEFAULT_CONFIG itself or one of this configuration; any other key goes to
\* the top level; the file is written
ConfigSet(key, value) ==
    /\ calls < MaxCalls
    /\ IF key = "theme"
       THEN IF config.shared
            THEN defaults' = [defaults EXCEPT !.theme = value] /\ config' = config
            ELSE config' = [config EXCEPT !.theme = value] /\ defaults' = defaults
       ELSE config' = [config EXCEPT !.extra = value] /\ defaults' = defaults
    /\ lastCall' = [NoCall EXCEPT !.op = "set", !.key = key, !.value = value]
    /\ calls' = calls + 1
    /\ UNCHANGED <<dlVars, errorLog, opVars, vault, clients, handler, messages>>

\* Config.get
ConfigGet(key) ==
    /\ calls < MaxCalls
    /\ lastCall' = [NoCall EXCEPT !.op = "get", !.key = key,
                                  !.result = get(config, defaults, key)]
    /\ calls' = calls + 1
    /\ UNCHANGED <<dlVars, cfVars, errorLog, opVars, vault, clients, handler, messages>>

\* Config.reset: self.config = DEFAULT_CONFIG.copy(), the file is written
ConfigReset ==
    /\ calls < MaxCalls
    /\ config' = ShallowCopy
    /\ lastCall' = [NoCall EXCEPT !.op = "reset"]
    /\ calls' = calls + 1
    /\ UNCHANGED <<dlVars, defaults, errorLog, opVars, vault, clients, handler, messages>>

NextConfig ==
    \/ \E key \in ConfigKeys : \E value \in Values : ConfigSet(key, value)
    \/ \E key \in ConfigKeys : ConfigGet(key)
    \/ ConfigReset

\* Config() with no configuration file, or with one written by an earlier run
InitConfig ==
    /\ fs = [p \in Paths |-> "absent"]
    /\ InitJobs
    /\ InitObjects(EmptyVault)
    /\ config \in {ShallowCopy} \cup {Loaded(theme) : theme \in Themes}
    /\ defaults = DEFAULT_CONFIG

SpecConfig == InitConfig /\ [][NextConfig]_vars

\* ------------------------------------ CredentialManager, RepositoryHandler
\* CredentialManager.set_credential
SetCredential(key, value) ==
    /\ calls < MaxCalls
    /\ vault' = set_password(vault, namespace, key, value)
    /\ lastCall' = [NoCall EXCEPT !.op = "set_credential", !.key = key,
                                  !.value = value]
    /\ calls' = calls + 1
    /\ UNCHANGED <<dlVars, cfVars, errorLog, opVars, clients, handler, messages>>

\* CredentialManager.delete_credential: PasswordDeleteError is caught
DeleteCredential(key, strict) ==
    /\ calls < MaxCalls
    /\ LET d == delete_password(vault, namespace, key, strict) IN
       /\ vault' = d.vault
       /\ lastCall' = [NoCall EXCEPT !.op = "delete_credential", !.key = key,
                                     !.raised = FALSE]
    /\ calls' = calls + 1
    /\ UNCHANGED <<dlVars, cfVars, errorLog, opVars, clients, handler, messages>>

\* CredentialManager.has_credentials(platform), for a provider name or any
\* other string
Platforms == Providers \cup {"other"}

HasCredentials(platform) ==
    /\ calls < MaxCalls
    /\ lastCall' = [NoCall EXCEPT !.op = "has_credentials", !.key = platform,
                                  !.flag = has_credentials(vault, platform)]
    /\ calls' = calls + 1
    /\ UNCHANGED <<dlVars, cfVars, errorLog, opVars, vault, clients, handler, messages>>

\* the client list_<p>_repos works with: the cached one, or init_<p>()
ClientFor(p) == IF handler[p] # NoClient THEN handler[p] ELSE init_client(vault, p)

\* RepositoryHandler.list_all_repos: list_github_repos, list_gitlab_repos,
\* list_bitbucket_repos in turn, nothing caught; the services in `failing`
\* raise while listing
ListAllRepos(failing) ==
    /\ calls < MaxCalls
    /\ LET fails(p)   == ClientFor(p) # NoClient /\ p \in failing
           reached(p) == \A q \in Providers : Pos(q) < Pos(p) => ~fails(q)
           raised     == \E p \in Providers : fails(p)
           all        == [i \in 1..Len(ProviderOrder) |->
                             Listing(ProviderOrder[i], ClientFor(ProviderOrder[i]))]
       IN
       /\ handler' = [p \in Providers |->
                         IF reached(p) THEN ClientFor(p) ELSE handler[p]]
       /\ lastCall' = [NoCall EXCEPT
                          !.op = "list_all_repos",
                          !.raised = raised,
                          !.failed = {p \in Providers : fails(p) /\ reached(p)},
                          !.listed = IF raised THEN <<>>
                                     ELSE SelectSeq(all, LAMBDA e : e.cred # NoClient)]
    /\ calls' = calls + 1
    /\ UNCHANGED <<dlVars, cfVars, errorLog, opVars, vault, clients, messages>>

NextHandler ==
    \/ \E k \in CredKeys : \E val \in Secrets : SetCredential(k, val)
    \/ \E k \in CredKeys : \E strict \in BOOLEAN : DeleteCredential(k, strict)
    \/ \E failing \in SUBSET Providers : ListAllRepos(failing)
    \/ \E platform \in Platforms : HasCredentials(platform)

CredVaults ==
    {v \in [VaultKeys -> {None, "t1"}] :
        \A k \in VaultKeys : k[1] # namespace => v[k] = None}

InitHandler ==
    /\ fs = [p \in Paths |-> "absent"]
    /\ InitJobs
    /\ \E v \in CredVaults : InitStores(v)

SpecHandler == InitHandler /\ [][NextHandler]_vars

\* ------------------------------------------------------------ MessageCenter
\* add_message: the Message is stamped with datetime.now(), the local wall
\* clock, and inserted as a new row
AddMessage(c, source, now) ==
    /\ calls < MaxCalls
    /\ LET m == Message(c.type, c.text, now, source, c.details, c.progress) IN
       /\ messages' = Append(messages, Row(m))
       /\ lastCall' = [NoCall EXCEPT !.op = "add_message",
                                     !.args = [source |-> source],
                                     !.rows = <<Len(messages) + 1>>,
                                     !.out = <<m>>]
    /\ calls' = calls + 1
    /\ UNCHANGED <<dlVars, cfVars, errorLog, opVars, vault, clients, handler>>

\* get_messages: SELECT ... WHERE ... ORDER BY timestamp DESC [LIMIT ?]
GetMessages(limit, type, source, since) ==
    /\ calls < MaxCalls
    /\ \E o \in Newest(messages, {i \in 1..Len(messages) :
                                     Selected(messages[i], type, source, since)}) :
          lastCall' = [NoCall EXCEPT
                          !.op = "get_messages",
                          !.args = [limit |-> limit, type |-> type,
                                    source |-> source, since |-> since],
                          !.rows = Limit(o, limit),
                          !.out = [k \in 1..Len(Limit(o, limit)) |->
                                      FromRow(messages[Limit(o, limit)[k]])]]
    /\ calls' = calls + 1
    /\ UNCHANGED <<dlVars, cfVars, errorLog, opVars, vault, clients, handler, messages>>

\* clear_messages: DELETE ... WHERE ...; returns cursor.rowcount
ClearMessages(older_than, type, source) ==
    /\ calls < MaxCalls
    /\ messages' = SelectSeq(messages,
                             LAMBDA r : ~Cleared(r, older_than, type, source))
    /\ lastCall' = [NoCall EXCEPT
                       !.op = "clear_messages",
                       !.args = [older_than |-> older_than, type |-> type,
                                 source |-> source],
                       !.count = Cardinality({i \in 1..Len(messages) :
                                   Cleared(messages[i], older_than, type, source)})]
    /\ calls' = calls + 1
    /\ UNCHANGED <<dlVars, cfVars, errorLog, opVars, vault, clients, handler>>

\* update_progress: UPDATE ... WHERE source = ? AND type = 'progress' ORDER BY
\* timestamp DESC LIMIT 1; an SQLite built without ORDER BY/LIMIT on UPDATE
\* (orderByLimit false) rejects the statement
UpdateProgress(source, progress, text, orderByLimit) ==
    /\ calls < MaxCalls
    /\ LET cands == {i \in 1..Len(messages) :
                        messages[i].source = source /\ messages[i].type = "progress"}
       IN
       IF ~orderByLimit \/ cands = {}
       THEN UNCHANGED messages
       ELSE \E o \in Newest(messages, cands) :
               messages' = [messages EXCEPT
                               ![o[1]].progress = progress,
                               ![o[1]].text = IF Bool(text) THEN text ELSE @]
    /\ lastCall' = [NoCall EXCEPT
                       !.op = "update_progress",
                       !.args = [source |-> source, progress |-> progress,
                                 text |-> text],
                       !.raised = ~orderByLimit]
    /\ calls' = calls + 1
    /\ UNCHANGED <<dlVars, cfVars, errorLog, opVars, vault, clients, handler>>

\* get_latest_progress: SELECT progress ... WHERE source = ? AND type =
\* 'progress' ORDER BY timestamp DESC LIMIT 1; None without such a row
GetLatestProgress(source) ==
    /\ calls < MaxCalls
    /\ LET cands == {i \in 1..Len(messages) :
                        messages[i].source = source /\ messages[i].type = "progress"}
       IN
       IF cands = {}
       THEN lastCall' = [NoCall EXCEPT !.op = "get_latest_progress",
                                       !.args = [source |-> source]]
       ELSE \E o \in Newest(messages, cands) :
               lastCall' = [NoCall EXCEPT !.op = "get_latest_progress",
                                          !.args = [source |-> source],
                                          !.rows = <<o[1]>>,
                                          !.result = messages[o[1]].progress]
    /\ calls' = calls + 1
    /\ UNCHANGED <<dlVars, cfVars, errorLog, opVars, vault, clients, handler, messages>>

Limits == {NoLimit, 0, 1}

NextMessages ==
    \/ \E c \in Contents : \E s \in Sources : \E now \in Times : AddMessage(c, s, now)
    \/ \E limit \in Limits : \E ty \in MessageTypes \cup {None} :
       \E s \in Sources \cup {None} : \E since \in Times \cup {NoTime} :
          GetMessages(limit, ty, s, since)
    \/ \E older \in Times \cup {NoTime} : \E ty \in MessageTypes \cup {None} :
       \E s \in Sources \cup {None} : ClearMessages(older, ty, s)
    \/ \E s \in Sources : \E text \in {None, "", "b"} : \E orderByLimit \in BOOLEAN :
          UpdateProgress(s, "75.0", text, orderByLimit)
    \/ \E s \in Sources : GetLatestProgress(s)

InitMessages ==
    /\ fs = [p \in Paths |-> "absent"]
    /\ InitJobs
    /\ InitStores(EmptyVault)

SpecMessages == InitMessages /\ [][NextMessages]_vars

\* the progress path alone: messages without details are recorded and updated,
\* the latest progress is read, and a source's messages are listed
NextProgress ==
    \/ \E c \in {k \in Contents : k.details = None} :
       \E s \in Sources : \E now \in Times : AddMessage(c, s, now)
    \/ \E s \in Sources : \E text \in {None, "", "b"} : \E orderByLimit \in BOOLEAN :
          UpdateProgress(s, "75.0", text, orderByLimit)
    \/ \E s \in Sources : GetLatestProgress(s)
    \/ \E s \in Sources : GetMessages(NoLimit, None, s, NoTime)

SpecProgress == InitMessages /\ [][NextProgress]_vars

\* ================================================================== claims
Terminal == {"Completed", "Failed", "Cancelled"}
LastError == errorLog[Len(errorLog)]

\* C1: a download whose target destination/repo.name already exists fails with
\* ValueError; clone_from is not invoked and the file system stays as it was.
C1_ConflictStep ==
    \A s \in Screens :
        (pc[s] \in {"mkdir", "check"} /\ fs[RepoPath(Name(s))] # "absent") =>
            /\ fs' = fs
            /\ cloneCalls' = cloneCalls
            /\ pc[s] = "mkdir" => pc'[s] \in {"mkdir", "check"}
            /\ pc[s] = "check" => pc'[s] \in {"check", "dead"}
            /\ pc'[s] = "dead" =>
                  errorLog' = Append(errorLog, DownloadError(s, "ValueError"))
C1_ConflictFails == [][C1_ConflictStep]_vars

C1_Witness ==
    \E s \in Screens :
        /\ pc[s] = "dead"
        /\ errorLog # <<>> /\ LastError.cause = "ValueError"
        /\ fs[RepoPath(Name(s))] = "dir"
        /\ cloneCalls[s][idx[s]] = 0

\* C2: in a batch, a failed download ends only its own job: once the worker
\* has ended, every repository of the batch has been attempted.
C2_BatchContinues ==
    \A s \in Screens :
        pc[s] \in {"done", "dead"} =>
            \A i \in 1..Total(s) : JobState(s, i) # "Pending"

\* C3: the jobs of a batch run one at a time in list order: clone_from of job
\* i+1 is entered only after that of job i has returned, and the progress
\* updates reach the UI in job order, each naming the job it belongs to.
C3_OneAtATime ==
    \A s \in Screens :
        /\ \A i \in 2..Total(s) :
              cloneCalls[s][i] > 0 =>
                  /\ cloneCalls[s][i - 1] = 1
                  /\ fs[RepoPath(repos[s][i - 1])] = "cloned"
        /\ \A k \in 1..Len(uiQueue) :
              (uiQueue[k].screen = s /\ uiQueue[k].kind = "progress" /\ s = "multi") =>
                  /\ uiQueue[k].idx >= status[s].idx
                  /\ uiQueue[k].name = repos[s][uiQueue[k].idx]
                  /\ cloneCalls[s][uiQueue[k].idx] = 1
                  /\ \A j \in 1..Total(s) : j > uiQueue[k].idx => cloneCalls[s][j] = 0
        /\ (status[s].kind = "progress" /\ s = "multi") =>
              /\ status[s].name = repos[s][status[s].idx]
              /\ \A j \in 1..Total(s) : j < status[s].idx =>
                    fs[RepoPath(repos[s][j])] = "cloned"
C3_InOrderStep ==
    \A s \in Screens :
        (status[s].kind = "progress" /\ status'[s].kind = "progress") =>
            status'[s].idx >= status[s].idx
C3_SequentialBatch == [](C3_OneAtATime) /\ [][C3_InOrderStep]_vars

C3_Witness ==
    /\ pc["multi"] = "clone" /\ idx["multi"] = 2
    /\ status["multi"].kind = "progress" /\ status["multi"].idx = 2
    /\ applied["multi"] = 1

\* C4: a job moves only Pending -> Running -> Completed | Failed | Cancelled
\* (a job that never runs fails from Pending); a job whose target exists at the
\* check does not enter Running; a terminal job stays as it is and clone_from
\* is entered at most once per job.
C4_Moves ==
    {<<"Pending", "Running">>, <<"Pending", "Failed">>, <<"Running", "Completed">>,
     <<"Running", "Failed">>, <<"Running", "Cancelled">>}
C4_JobStep ==
    \A s \in Screens :
        /\ \A i \in 1..Total(s) :
              \/ JobState(s, i)' = JobState(s, i)
              \/ <<JobState(s, i), JobState(s, i)'>> \in C4_Moves
        /\ (pc[s] = "check" /\ fs[RepoPath(Name(s))] # "absent") =>
              pc'[s] \in {"check", "dead"}
        /\ \A i \in 1..Len(cloneCalls'[s]) : cloneCalls'[s][i] <= 1
C4_JobStateMachine == [][C4_JobStep]_vars

C4_Witness ==
    /\ pc["multi"] = "dead" /\ Total("multi") = 2
    /\ JobState("multi", 1) = "Completed" /\ JobState("multi", 2) = "Failed"
    /\ LastError.cause = "ValueError"

\* C5: when clone_from raises, the job fails with that cause: clone_from was
\* entered once for the call, one error record is written and the exception
\* leaves download_repository (the worker does not go on or try again).
C5_FailStep ==
    \A s \in Screens :
        /\ (pc[s] = "clone" /\ fs'[RepoPath(Name(s))] # "cloned" /\ pc'[s] # "clone") =>
              /\ pc'[s] = "dead"
              /\ cloneCalls[s][idx[s]] = 1
              /\ errorLog' = Append(errorLog, DownloadError(s, "GitCommandError"))
        /\ pc[s] = "dead" =>
              /\ pc'[s] = "dead"
              /\ cloneCalls' = cloneCalls
              /\ errorLog' = errorLog
C5_CloneErrorPropagates == [][C5_FailStep]_vars

C5_Witness ==
    \E s \in Screens :
        /\ pc[s] = "dead"
        /\ LastError = DownloadError(s, "GitCommandError")
        /\ cloneCalls[s][idx[s]] = 1
        /\ nReports[s] > 0

\* C6: every terminal failure of an operation writes exactly one error record.
ErrorsOf(who, name) ==
    Cardinality({k \in 1..Len(errorLog) :
                    errorLog[k].who = who /\ errorLog[k].name = name})
C6_OneErrorPerFailure ==
    /\ lastOp.result \in {"raised", "false"} => lastOp.errors = 1
    /\ \A s \in Screens : pc[s] = "dead" => ErrorsOf(s, Name(s)) = 1

\* C7: a transport report with a known, non-zero total hands exactly
\* current/total * 100 to the progress callback; a report without a total
\* makes no callback at all.
C7_ReportStep ==
    \A s \in Screens :
        nReports'[s] = nReports[s] + 1 =>
            LET r == report'[s] IN
            IF r.max # NoTotal /\ r.max # 0
            THEN /\ cbCount'[s] = cbCount[s] + 1
                 /\ lastPct'[s].n * r.max = r.cur * 100 * lastPct'[s].d
                 /\ Len(uiQueue') = Len(uiQueue) + 1
                 /\ uiQueue'[Len(uiQueue')].screen = s
                 /\ uiQueue'[Len(uiQueue')].kind = "progress"
                 /\ uiQueue'[Len(uiQueue')].pct = lastPct'[s]
            ELSE /\ cbCount'[s] = cbCount[s]
                 /\ lastPct'[s] = lastPct[s]
                 /\ uiQueue' = uiQueue
C7_PercentExact == [][C7_ReportStep]_vars

\* reports (1,4) then (4,4): 25 was applied, 100 is being handed over
C7_Witness ==
    \E s \in Screens :
        /\ report[s].cur = 4 /\ report[s].max = 4
        /\ nReports[s] = 2 /\ cbCount[s] = 2
        /\ bar[s] = [n |-> 25, d |-> 1] /\ lastPct[s] = Hundred
        /\ ~Returned(uiQueue, s)

\* C8: the percentages handed to the progress callback during one job never go
\* down and lie in [0,100].
C8_MonotoneStep ==
    \A s \in Screens :
        (cbCount'[s] = cbCount[s] + 1 /\ cbCount[s] >= 1) => Leq(lastPct[s], lastPct'[s])
C8_InRange == \A s \in Screens : Leq(Zero, lastPct[s]) /\ Leq(lastPct[s], Hundred)
C8_ProgressMonotone == [](C8_InRange) /\ [][C8_MonotoneStep]_vars

\* C9: a job is complete only after each of its progress updates has been
\* applied by the UI thread: whenever the worker is outside clone_from every
\* callback made has been applied and none is queued; when the screen shows
\* "complete" the bar holds the last percentage, and nothing changes it after.
C9_AllApplied ==
    \A s \in Screens :
        /\ pc[s] # "clone" =>
              /\ applied[s] = cbCount[s]
              /\ \A k \in 1..Len(uiQueue) :
                    uiQueue[k].screen = s => uiQueue[k].kind = "finish"
        /\ status[s].kind = "complete" =>
              /\ pc[s] = "done"
              /\ \A k \in 1..Len(uiQueue) : uiQueue[k].screen # s
              /\ cbCount[s] > 0 => bar[s] = lastPct[s]
C9_CompleteStep ==
    \A s \in Screens :
        status[s].kind = "complete" =>
            status'[s] = status[s] /\ bar'[s] = bar[s] /\ applied'[s] = applied[s]
C9_CompletedAfterProgress == [](C9_AllApplied) /\ [][C9_CompleteStep]_vars

C9_Witness ==
    /\ status["single"].kind = "complete"
    /\ cbCount["single"] = 2 /\ applied["single"] = 2
    /\ bar["single"] = Hundred

\* C10: a cancel request made while the job runs is honoured at the next
\* progress callback: the job becomes Cancelled there, that callback and all
\* later ones report no progress, and the partial directory stays.
C10_CancelState ==
    \A s \in Screens :
        cancelReq[s] =>
            /\ pc[s] \in {"clone", "cancelled"}
            /\ pc[s] = "cancelled" => fs[RepoPath(Name(s))] = "partial"
C10_CancelStep ==
    \A s \in Screens :
        (cancelReq[s] /\ cbCount'[s] > cbCount[s]) =>
            (pc'[s] = "cancelled" /\ uiQueue' = uiQueue)
C10_CancelHonoured == [](C10_CancelState) /\ [][C10_CancelStep]_vars

\* ------------------------------------------------------ repository catalog
Listings == {"get_all_repositories", "list_all_repos"}
ListedServices == {lastCall.listed[i].service : i \in 1..Len(lastCall.listed)}
Logged(p) == \E i \in 1..Len(errorLog) : errorLog[i] = ListError(p)
\* the services the listing object holds a client for
Configured(p) ==
    IF lastCall.op = "list_all_repos" THEN handler[p] # NoClient
    ELSE clients[p] # NoClient

\* C11: when one provider fails while the repositories of all providers are
\* listed, the aggregate call does not raise, the failure is logged as an error,
\* the failed provider contributes nothing and every other configured provider's
\* repositories are returned.
C11_PartialFailure ==
    lastCall.op \in Listings =>
        /\ ~lastCall.raised
        /\ \A p \in lastCall.failed : p \notin ListedServices /\ Logged(p)
        /\ \A p \in Providers \ lastCall.failed :
              Configured(p) => p \in ListedServices

\* whether the keyring holds the credentials the listing object asks for
Credentialed(p) ==
    IF lastCall.op = "list_all_repos" THEN has_credentials(vault, p)
    ELSE Bool(get_token(vault, p))
ErrorsFor(log, p) == Cardinality({i \in 1..Len(log) : log[i] = ListError(p)})

\* C12: a provider whose credentials are missing when the repositories are
\* listed gets no client constructed, contributes no repository to the
\* aggregated list and has no error logged for it.
C12_Step ==
    \A p \in Providers :
        (calls' = calls + 1 /\ lastCall'.op \in Listings /\ ~Credentialed(p)') =>
            /\ handler'[p] = handler[p]
            /\ clients'[p] = clients[p]
            /\ p \notin ListedServices'
            /\ ErrorsFor(errorLog', p) = ErrorsFor(errorLog, p)
C12_NoCredentialsExcluded == [][C12_Step]_vars

\* the credentials the keyring holds for provider p, as the listing object
\* would read them
StoredFor(p) ==
    IF lastCall.op = "list_all_repos"
    THEN IF p = "bitbucket"
         THEN Client(vault[<<namespace, "bitbucket_token">>],
                     vault[<<namespace, "bitbucket_username">>])
         ELSE IF p = "github" THEN Client(vault[<<namespace, "github_token">>], None)
         ELSE Client(vault[<<namespace, "gitlab_token">>], None)
    ELSE Client(vault[<<KEYRING_NAMESPACE, p>>], None)

\* C13: a client lives only until the credentials of its provider change: the
\* repositories a listing returns were fetched with the credentials the keyring
\* holds at the time of the call, never with replaced or removed ones.
C13_ClientsFollowCredentials ==
    lastCall.op \in Listings =>
        \A i \in 1..Len(lastCall.listed) :
            lastCall.listed[i].cred = StoredFor(lastCall.listed[i].service)

\* ---------------------------------------------------------------- event log
\* the instant a stored row was stamped with, and the order of instants
Stamp(r) == IF Len(r.timestamp) = 1 THEN <<r.timestamp[1], 0>> ELSE r.timestamp
Before(x, y) == x[1] < y[1] \/ (x[1] = y[1] /\ x[2] < y[2])
Smaller(a, b) == IF a < b THEN a ELSE b

\* a row satisfies every filter the query or purge was given
Wanted(r, type, source) ==
    /\ type # None => r.type = type
    /\ source # None => r.source = source

\* C14: get_messages(limit, type, source, since) returns exactly the messages
\* that satisfy every supplied filter (type equal, source equal, timestamp after
\* since), newest first, cut to the first `limit` of them when a limit is given.
C14_QueryFilters ==
    lastCall.op = "get_messages" =>
        LET a    == lastCall.args
            rows == lastCall.rows
            want == {i \in 1..Len(messages) :
                        /\ Wanted(messages[i], a.type, a.source)
                        /\ a.since # NoTime => Before(a.since, Stamp(messages[i]))}
            got  == {rows[k] : k \in 1..Len(rows)}
        IN
        /\ got \subseteq want
        /\ Cardinality(got) = Len(rows)
        /\ \A j, k \in 1..Len(rows) :
              j < k => ~Before(Stamp(messages[rows[j]]), Stamp(messages[rows[k]]))
        /\ Len(rows) = IF a.limit = NoLimit THEN Cardinality(want)
                       ELSE Smaller(a.limit, Cardinality(want))
        /\ \A i \in want \ got : \A k \in got :
              ~Before(Stamp(messages[k]), Stamp(messages[i]))

\* C15: clear_messages(older_than=T, type, source) removes all and only the
\* messages that match every supplied filter (timestamp strictly before T, type
\* equal, source equal), leaves the others as they were (one stamped exactly T
\* stays) and returns the number removed.
C15_Step ==
    (calls' = calls + 1 /\ lastCall'.op = "clear_messages") =>
        LET a == lastCall'.args
            gone(r) == /\ Wanted(r, a.type, a.source)
                       /\ a.older_than # NoTime => Before(Stamp(r), a.older_than)
        IN
        /\ messages' = SelectSeq(messages, LAMBDA r : ~gone(r))
        /\ lastCall'.count = Len(messages) - Len(messages')
C15_PurgeExact == [][C15_Step]_vars

\* C16: add_message(...) for source S immediately followed by
\* get_messages(source=S, limit=1) returns one message, equal in type, text,
\* timestamp, source, details and progress to the message just recorded.
C16_Step ==
    (/\ lastCall.op = "add_message"
     /\ calls' = calls + 1
     /\ lastCall'.op = "get_messages"
     /\ lastCall'.args = [limit |-> 1, type |-> None,
                          source |-> lastCall.args.source, since |-> NoTime])
        => lastCall'.out = lastCall.out
C16_RoundTrip == [][C16_Step]_vars

\* C17: recording a Progress message for a source that already has one updates
\* the most recent Progress message of that source in place and the number of
\* stored messages does not grow; any other recording appends exactly one.
C17_Step ==
    (calls' = calls + 1 /\ lastCall'.op = "add_message") =>
        LET m == lastCall'.out[1] IN
        IF /\ m.type = "progress"
           /\ \E i \in 1..Len(messages) :
                 messages[i].source = m.source /\ messages[i].type = "progress"
        THEN Len(messages') = Len(messages)
        ELSE /\ Len(messages') = Len(messages) + 1
             /\ SubSeq(messages', 1, Len(messages)) = messages
C17_ProgressUpsert == [][C17_Step]_vars

\* C18: within one source timestamps never go backward in insertion order, so
\* get_messages(source=S) returns the messages of S in exact reverse insertion
\* order.
C18_SourceOrder ==
    /\ \A i, j \in 1..Len(messages) :
          (i < j /\ messages[i].source = messages[j].source) =>
              ~Before(Stamp(messages[j]), Stamp(messages[i]))
    /\ (/\ lastCall.op = "get_messages"
        /\ lastCall.args.limit = NoLimit /\ lastCall.args.type = None
        /\ lastCall.args.since = NoTime /\ lastCall.args.source # None) =>
          /\ {lastCall.rows[k] : k \in 1..Len(lastCall.rows)} =
                {i \in 1..Len(messages) : messages[i].source = lastCall.args.source}
          /\ \A j, k \in 1..Len(lastCall.rows) :
                j < k => lastCall.rows[j] > lastCall.rows[k]

\* ------------------------------------------------------------- secret store
\* the keyring entry the last call of TokenManager was about
Entry(call) == <<KEYRING_NAMESPACE, call.key>>
OthersKept(call) ==
    \A k \in VaultKeys : k # Entry(call) => vault'[k] = vault[k]

\* C19: the secret store is a last-writer-wins map: store_token(p, v) makes v
\* the value of p, whatever was stored before, and changes no other entry;
\* storing the value p already has changes nothing; a removed entry reads as
\* None; get_token(p) returns the entry of p, None when there is none, without
\* raising and without changing the store.
C19_Step ==
    calls' = calls + 1 =>
        /\ lastCall'.op = "store_token" =>
              /\ vault'[Entry(lastCall')] = lastCall'.value
              /\ OthersKept(lastCall')
              /\ vault[Entry(lastCall')] = lastCall'.value => vault' = vault
        /\ lastCall'.op = "remove_token" =>
              /\ vault'[Entry(lastCall')] = None
              /\ OthersKept(lastCall')
        /\ lastCall'.op = "get_token" =>
              /\ lastCall'.result = vault[Entry(lastCall')]
              /\ ~lastCall'.raised
              /\ vault' = vault
        /\ lastCall'.op = "get_all_repositories" => vault' = vault
C19_LastWriterWins == [][C19_Step]_vars

\* a token stored over an earlier one is what get_token returns
C19_Witness ==
    /\ lastCall.op = "get_token"
    /\ lastCall.result = "t2"
    /\ clients[lastCall.key].token = "t1"

\* C20: removing the secret of a provider that has no stored entry completes
\* without raising and leaves the keyring unchanged (TokenManager.remove_token,
\* CredentialManager.delete_credential).
C20_Step ==
    (/\ calls' = calls + 1
     /\ \/ lastCall'.op = "remove_token"
           /\ vault[<<KEYRING_NAMESPACE, lastCall'.key>>] = None
        \/ lastCall'.op = "delete_credential"
           /\ vault[<<namespace, lastCall'.key>>] = None)
        => ~lastCall'.raised /\ vault' = vault
C20_RemoveTotal == [][C20_Step]_vars

\* C21: after clear_tokens() no supported service has a token left, whichever
\* of them had one before the call, and the call returns.
C21_AllCleared ==
    lastCall.op = "clear_tokens" =>
        /\ ~lastCall.raised
        /\ \A s \in Providers : vault[<<KEYRING_NAMESPACE, s>>] = None

\* C30: after clear_tokens() none of the entries the settings screen writes
\* (github, gitlab, bitbucket_user, bitbucket_token) is left in the keyring.
C30_SettingsCleared ==
    lastCall.op = "clear_tokens" =>
        \A k \in SettingsKeys : vault[<<KEYRING_NAMESPACE, k>>] = None

\* an entry of the CredentialManager that is stored and not empty
Present(key) == vault[<<namespace, key>>] \notin {None, ""}

\* C22: has_credentials(p) is true exactly when the credentials of p are
\* complete: the token for github and gitlab, both the username and the token
\* for bitbucket, never for another provider name.
C22_HasCredentials ==
    lastCall.op = "has_credentials" =>
        (lastCall.flag <=>
            \/ lastCall.key = "github" /\ Present("github_token")
            \/ lastCall.key = "gitlab" /\ Present("gitlab_token")
            \/ /\ lastCall.key = "bitbucket"
               /\ Present("bitbucket_username")
               /\ Present("bitbucket_token"))

C22_Witness ==
    /\ lastCall.op = "has_credentials"
    /\ lastCall.key = "bitbucket"
    /\ Present("bitbucket_token")
    /\ vault[<<namespace, "bitbucket_username">>] = ""
    /\ ~lastCall.flag

\* C23: delete_repository for a supported provider (github, gitlab, bitbucket)
\* never raises: it returns true or false, and a failed deletion shows as false.
C23_DeleteReturnsBool ==
    (lastOp.op = "delete" /\ lastOp.service \in Providers) =>
        lastOp.result \in {"true", "false"}

\* C24: after reset() the theme reads "dark" again, whatever was set before,
\* and a get after set(key, value) returns the value set.
C24_ResetRestoresDefaults ==
    /\ lastCall.op = "reset" => get(config, defaults, "theme") = "dark"
    /\ lastCall.op = "set" => get(config, defaults, lastCall.key) = lastCall.value

\* C25: validate_destination answers True for an existing writable directory
\* and for a missing path that can be created, and it is a pure probe: no path,
\* neither the one asked about nor an ancestor, exists afterwards that did not
\* exist before.
C25_Step ==
    (calls' = calls + 1 /\ lastCall'.op = "validate_destination") =>
        LET a == lastCall'.args IN
        /\ (fs[a.path] = "dir" /\ a.pathW) => lastCall'.flag
        /\ (fs[a.path] = "absent" /\ ~MkdirRaises(fs, a.path) /\ a.parentW)
              => lastCall'.flag
        /\ \A q \in Paths : fs[q] = "absent" => fs'[q] = "absent"
C25_PureProbe == [][C25_Step]_vars

\* C26: a download without conflict creates the destination with its parents,
\* invokes clone exactly once, with the url of the repository as source and
\* destination/name as target, and when clone succeeds it returns normally
\* with destination/name existing.
C26_Step ==
    \A s \in Screens :
        /\ (pc[s] = "mkdir" /\ pc'[s] = "check") =>
              fs'[Dest] = "dir" /\ fs'[ParentDir] = "dir"
        /\ (pc[s] = "call_clone" /\ pc'[s] # "call_clone") =>
              /\ cloneCalls'[s][idx[s]] = 1
              /\ lastCall'.op = "clone_from"
              /\ lastCall'.args = [url |-> Url(Name(s)),
                                   to_path |-> Append(Dest, Name(s))]
        /\ (pc[s] = "clone" /\ pc'[s] = "loop") =>
              /\ cloneCalls[s][idx[s]] = 1
              /\ fs[Dest] = "dir" /\ fs[ParentDir] = "dir"
              /\ Exists(fs', Append(Dest, Name(s)))
              /\ errorLog' = errorLog
C26_DownloadClones == [][C26_Step]_vars

C26_Witness ==
    \E s \in Screens :
        /\ pc[s] = "loop" /\ idx[s] = 2
        /\ cloneCalls[s][1] = 1
        /\ lastCall.op = "clone_from"
        /\ lastCall.args.to_path = Append(Dest, repos[s][1])
        /\ fs[Append(Dest, repos[s][1])] = "cloned"

\* C27: update_progress changes at most one stored message, the most recent
\* Progress message of the source, and of it only the progress, and the text
\* when a non-empty text is given; it creates no message; add_message,
\* get_messages and get_latest_progress change no existing message.
ProgressOf(source) ==
    {i \in 1..Len(messages) :
        messages[i].source = source /\ messages[i].type = "progress"}
C27_Step ==
    (calls' = calls + 1) =>
        /\ lastCall'.op = "update_progress" =>
              LET a == lastCall'.args
                  changed == {i \in 1..Len(messages) : messages'[i] # messages[i]}
              IN
              /\ Len(messages') = Len(messages)
              /\ Cardinality(changed) <= 1
              /\ \A i \in changed :
                    /\ i \in ProgressOf(a.source)
                    /\ \A j \in ProgressOf(a.source) :
                          ~Before(Stamp(messages[i]), Stamp(messages[j]))
                    /\ messages'[i] =
                          [messages[i] EXCEPT
                              !.progress = a.progress,
                              !.text = IF a.text \notin {None, ""} THEN a.text ELSE @]
        /\ lastCall'.op = "add_message" =>
              SubSeq(messages', 1, Len(messages)) = messages
        /\ lastCall'.op \in {"get_messages", "get_latest_progress"} =>
              messages' = messages
C27_OnlyProgressMutates == [][C27_Step]_vars

C27_Witness ==
    /\ lastCall.op = "update_progress"
    /\ lastCall.args.text = "b"
    /\ \E i, j \in ProgressOf(lastCall.args.source) :
          /\ Before(Stamp(messages[j]), Stamp(messages[i]))
          /\ messages[i].progress = "75.0" /\ messages[i].text = "b"
          /\ messages[j].progress = "50.0" /\ messages[j].text = "a"

\* C28: every started download eventually delivers its terminal outcome to the
\* UI, whether the clone succeeds or fails: a screen that shows the spinner of
\* a running download eventually has _finish run and the spinner hidden.
C28_EventuallyFinished ==
    \A s \in Screens : (spinner[s] = TRUE) ~> (spinner[s] = FALSE /\ pc[s] = "done")

\* C29: of two downloads of the same name into the same destination running on
\* separate worker threads, at most one invokes clone on destination/name and
\* the other fails with the conflict error (ValueError).
SameTarget(s, o) ==
    /\ s # o
    /\ pc[s] # "unmounted" /\ pc[o] # "unmounted"
    /\ repos[s] = repos[o]
C29_AtMostOneClone ==
    \A s, o \in Screens :
        (SameTarget(s, o) /\ cloneCalls[s][1] > 0) =>
            /\ cloneCalls[o][1] = 0
            /\ pc[o] = "dead" =>
                  \E k \in 1..Len(errorLog) : errorLog[k] = DownloadError(o, "ValueError")

====
